---- MODULE Spec2Model ----
(***************************************************************************)
(* InkFlow: the pressure-simulated brush.                                  *)
(*   utils/ink   getStrokeOutlinePoints, getSvgPathFromStroke              *)
(*   Canvas      getPoint, handlePointerDown/Move/Up                       *)
(*   App         history, redoStack, undo / redo / clear                   *)
(*                                                                         *)
(* A JavaScript number is modelled as an exact rational <<n, d>> in lowest *)
(* terms with d > 0.  An optional number that is absent is <<>>.  The      *)
(* inputs are chosen so that every Math.hypot the code takes is rational.  *)
(***************************************************************************)
EXTENDS Integers, Sequences, FiniteSets, TLC

VARIABLES
    \* Canvas / App
    currentPoints, isDrawing, history, redoStack, tool, now,
    \* getStrokeOutlinePoints
    points, options, i, prevPressure, prevVector, width, normal,
    leftPts, rightPts, outline, pc,
    \* getSvgPathFromStroke
    strokePoints, d, svgI, svgPc,
    \* getPoint called on its own
    gpEvent, gpBuffer, gpTime, gpResult, gpPc

canvasVars   == <<currentPoints, isDrawing, history, redoStack, tool, now>>
outlineVars  == <<points, options, i, prevPressure, prevVector, width, normal,
                  leftPts, rightPts, outline, pc>>
svgVars      == <<strokePoints, d, svgI, svgPc>>
pressureVars == <<gpEvent, gpBuffer, gpTime, gpResult, gpPc>>
vars         == <<canvasVars, outlineVars, svgVars, pressureVars>>

----------------------------------------------------------------------------
(* Numbers *)

Abs(a) == IF a < 0 THEN -a ELSE a

RECURSIVE GCD(_, _)
GCD(a, b) == IF b = 0 THEN a ELSE GCD(b, a % b)

\* The rational n/dd in lowest terms, dd # 0.
Rat(n, dd) ==
    LET g == GCD(Abs(n), Abs(dd))
        s == IF dd < 0 THEN -1 ELSE 1
    IN  <<(s * n) \div g, (s * dd) \div g>>

Num(n) == <<n, 1>>
Zero   == <<0, 1>>
One    == <<1, 1>>
Half   == <<1, 2>>
Absent == <<>>

RAdd(a, b) ==
    LET g == GCD(a[2], b[2])
    IN  Rat(a[1] * (b[2] \div g) + b[1] * (a[2] \div g), (a[2] \div g) * b[2])
RNeg(a)    == <<-a[1], a[2]>>
RSub(a, b) == RAdd(a, RNeg(b))
RMul(a, b) ==
    LET g1 == GCD(Abs(a[1]), b[2])
        g2 == GCD(Abs(b[1]), a[2])
    IN  IF a[1] = 0 \/ b[1] = 0 THEN Zero
        ELSE Rat((a[1] \div g1) * (b[1] \div g2), (a[2] \div g2) * (b[2] \div g1))
\* a / b for b # 0
RDiv(a, b) == RMul(a, Rat(b[2], b[1]))
RLt(a, b)  == a[1] * b[2] < b[1] * a[2]
RLe(a, b)  == a[1] * b[2] <= b[1] * a[2]
RMin(a, b) == IF RLt(b, a) THEN b ELSE a
RMax(a, b) == IF RLt(a, b) THEN b ELSE a
RAbs(a)    == <<Abs(a[1]), a[2]>>

\* The exact square root of a perfect square.
ISqrt(n) == CHOOSE r \in 0..n : r * r = n
RSqrt(a) == <<ISqrt(a[1]), ISqrt(a[2])>>

\* Math.hypot(x, y)
Hypot(x, y) == RSqrt(RAdd(RMul(x, x), RMul(y, y)))

\* Math.floor(a / b) for naturals, and Math.min on integers
Floor(a) == a[1] \div a[2]
Min(a, b) == IF a < b THEN a ELSE b

\* JavaScript's v || dflt on an optional number: undefined and 0 are falsy.
OrElse(v, dflt) == IF v = Absent \/ v = Zero THEN dflt ELSE v
\* JavaScript's v ?? dflt: only undefined (or null) is replaced.
Coalesce(v, dflt) == IF v = Absent THEN dflt ELSE v

----------------------------------------------------------------------------
(* utils/ink: vector helpers.  A vector is a record [x, y]. *)

Vec(x, y) == [x |-> x, y |-> y]

dist(a, b) == Hypot(RSub(a.x, b.x), RSub(a.y, b.y))
lerp(a, b, t) == RAdd(a, RMul(RSub(b, a), t))
add(a, b) == Vec(RAdd(a.x, b.x), RAdd(a.y, b.y))
sub(a, b) == Vec(RSub(a.x, b.x), RSub(a.y, b.y))
mul(a, n) == Vec(RMul(a.x, n), RMul(a.y, n))
\* (the perpendicular turned the other way)
perpOtherWay(a) == Vec(RNeg(a.y), a.x)
perp(a) == Vec(a.y, RNeg(a.x))
normalize(a) ==
    LET dd == Hypot(a.x, a.y)
    IN  IF dd = Zero THEN Vec(Zero, Zero) ELSE Vec(RDiv(a.x, dd), RDiv(a.y, dd))

\* A sequence in reverse order (Array.prototype.reverse).
Reverse(s) == [k \in 1..Len(s) |-> s[Len(s) + 1 - k]]

----------------------------------------------------------------------------
(* Bounds of the model *)

\* Strokes of up to MaxShort points take every combination of steps.
MaxShort == 4
\* Straight strokes run up to MaxPts points.
MaxPts == 18

----------------------------------------------------------------------------
(* utils/ink: getStrokeOutlinePoints(points, options) *)

Pt(x, y, pressure, time) == [x |-> x, y |-> y, pressure |-> pressure, time |-> time]
Pos(p) == Vec(p.x, p.y)

\* const taperLength = Math.min(5, Math.floor(points.length / 3))
TaperCap == 5
\* (a taper window of half the stroke)
TaperLengthHalf(n) == Min(TaperCap, Floor(Rat(n, 2)))
TaperLength(n) == Min(TaperCap, Floor(Rat(n, 3)))

\* 1 - Math.pow(1 - t, 3)
EaseOut(t) == RSub(One, RMul(RSub(One, t), RMul(RSub(One, t), RSub(One, t))))

\* The factor the loop multiplies the pressure of point idx by, of n points.
TaperFactor(idx, n) ==
    IF idx < TaperLength(n)
    THEN EaseOut(Rat(idx, TaperLength(n)))
    ELSE IF idx > n - 1 - TaperLength(n)
         THEN EaseOut(Rat(n - 1 - idx, TaperLength(n)))
         ELSE One

\* let prevPressure = points[0].pressure || 0.5
SeedPressure(pts) == OrElse(pts[1].pressure, Half)
\* let prevVector = normalize(sub(points[1], points[0]))
SeedVector(pts) == normalize(sub(Pos(pts[2]), Pos(pts[1])))

\* let pressure = curr.pressure ?? 0.5, tapered, then smoothed with the previous one
RawPressure(curr) == Coalesce(curr.pressure, Half)
SmoothPressure(prev, curr, idx, n) ==
    lerp(prev, RMul(RawPressure(curr), TaperFactor(idx, n)), Half)

\* const width = size * (1 - thinning * (1 - pressure))
StrokeWidth(size, thinning, pressure) ==
    RMul(size, RSub(One, RMul(thinning, RSub(One, pressure))))

\* The direction at point idx: to the next point, or the previous direction at the end.
Direction(pts, idx, prev) ==
    IF idx < Len(pts) - 1
    THEN normalize(sub(Pos(pts[idx + 2]), Pos(pts[idx + 1])))
    ELSE prev

\* const smoothVector = normalize(add(vector, prevVector)); const normal = perp(smoothVector)
Normal(vector, prev) == perp(normalize(add(vector, prev)))
\* const offset = mul(normal, width / 2)
Offset(nrm, w) == mul(nrm, RDiv(w, Num(2)))

LeftPoint(curr, offset)  == sub(Pos(curr), offset)
RightPoint(curr, offset) == add(Pos(curr), offset)

\* (the right list not reversed)
PolygonNoReverse(left, right) == left \o right
\* return [...leftPts, ...rightPts.reverse()]
Polygon(left, right) == left \o Reverse(right)

\* (the loop stopping one point early)
LoopContinuesShort(idx, pts) == idx < Len(pts) - 1
\* the loop's condition, i < points.length
LoopContinues(idx, pts) == idx < Len(pts)

\* if (points.length < 2) return []
OutlineReturnEmpty ==
    /\ pc = "start"
    /\ Len(points) < 2
    /\ outline' = <<>>
    /\ pc' = "done"
    /\ UNCHANGED <<points, options, i, prevPressure, prevVector, width, normal,
                   leftPts, rightPts>>
    /\ UNCHANGED <<canvasVars, svgVars, pressureVars>>

\* the declarations before the loop
OutlineSeed ==
    /\ pc = "start"
    /\ ~(Len(points) < 2)
    /\ prevPressure' = SeedPressure(points)
    /\ prevVector' = SeedVector(points)
    /\ leftPts' = <<>>
    /\ rightPts' = <<>>
    /\ i' = 0
    /\ pc' = "loop"
    /\ UNCHANGED <<points, options, width, normal, outline>>
    /\ UNCHANGED <<canvasVars, svgVars, pressureVars>>

\* one iteration of for (let i = 0; i < points.length; i++)
OutlineLoop ==
    /\ pc = "loop"
    /\ LoopContinues(i, points)
    /\ LET curr     == points[i + 1]
           pressure == SmoothPressure(prevPressure, curr, i, Len(points))
           w        == StrokeWidth(options.size, options.thinning, pressure)
           vector   == Direction(points, i, prevVector)
           nrm      == Normal(vector, prevVector)
           offset   == Offset(nrm, w)
       IN  /\ prevPressure' = pressure
           /\ width' = w
           /\ prevVector' = vector
           /\ normal' = nrm
           /\ leftPts' = Append(leftPts, LeftPoint(curr, offset))
           /\ rightPts' = Append(rightPts, RightPoint(curr, offset))
    /\ i' = i + 1
    /\ UNCHANGED <<points, options, outline, pc>>
    /\ UNCHANGED <<canvasVars, svgVars, pressureVars>>

\* the loop ends and the polygon is returned
OutlineReturn ==
    /\ pc = "loop"
    /\ ~LoopContinues(i, points)
    /\ outline' = Polygon(leftPts, rightPts)
    /\ pc' = "done"
    /\ UNCHANGED <<points, options, i, prevPressure, prevVector, width, normal,
                   leftPts, rightPts>>
    /\ UNCHANGED <<canvasVars, svgVars, pressureVars>>

(* The strokes and settings getStrokeOutlinePoints is applied to *)

\* Steps between consecutive points; every sum of two unit steps has a rational length.
StepSet == {<<25, 0>>, <<-25, 0>>, <<-7, 24>>, <<0, 0>>}
StraightSteps == {<<25, 0>>, <<-25, 0>>}
StartSet == {<<0, 0>>, <<3, -2>>}
FirstPressures == {Absent, Zero, Rat(1, 10), Half, One}
RestPressures == {Absent, Half, One}
DyadicFirstPressures == {Absent, Zero, Half, One}

RECURSIVE PathX(_, _, _), PathY(_, _, _)
PathX(start, steps, k) == IF k = 0 THEN start[1] ELSE PathX(start, steps, k - 1) + steps[k][1]
PathY(start, steps, k) == IF k = 0 THEN start[2] ELSE PathY(start, steps, k - 1) + steps[k][2]

\* The stroke from start along steps, the first point with pressure p0, the others with pr.
StrokeOf(start, steps, p0, pr) ==
    [k \in 1..(Len(steps) + 1) |->
        Pt(Num(PathX(start, steps, k - 1)), Num(PathY(start, steps, k - 1)),
           IF k = 1 THEN p0 ELSE pr, Absent)]

ShortStrokes ==
    {<<>>} \cup
    { StrokeOf(<<0, 0>>, steps, p0, pr) :
        steps \in UNION {[1..k -> StepSet] : k \in 0..(MaxShort - 1)},
        p0 \in FirstPressures, pr \in RestPressures }

StraightStrokes ==
    { StrokeOf(start, [k \in 1..m |-> s], p0, One) :
        start \in StartSet, m \in MaxShort..(MaxPts - 1), s \in StraightSteps,
        p0 \in DyadicFirstPressures }

Settings(size, thinning) ==
    [size |-> size, thinning |-> thinning, smoothing |-> Half,
     color |-> "#1c1917", simulatePressure |-> TRUE]
INITIAL_SETTINGS == Settings(Num(14), Rat(3, 4))
SettingsSet == {INITIAL_SETTINGS, Settings(Num(10), Zero), Settings(Num(10), One)}
\* The long straight strokes keep to settings whose widths stay within 32-bit fractions.
StraightSettings == {Settings(Num(10), Zero), Settings(Num(10), One)}

IdleCanvas ==
    /\ currentPoints = <<>>
    /\ isDrawing = FALSE
    /\ history = <<>>
    /\ redoStack = <<>>
    /\ tool = "PEN"
    /\ now = 0

IdleOutline ==
    /\ points = <<>>
    /\ options = INITIAL_SETTINGS
    /\ i = 0
    /\ prevPressure = Half
    /\ prevVector = Vec(Zero, Zero)
    /\ width = Zero
    /\ normal = Vec(Zero, Zero)
    /\ leftPts = <<>>
    /\ rightPts = <<>>
    /\ outline = <<>>
    /\ pc = "idle"

IdleSvg ==
    /\ strokePoints = <<>>
    /\ d = <<>>
    /\ svgI = 0
    /\ svgPc = "idle"

IdlePressure ==
    /\ gpEvent = [clientX |-> Zero, clientY |-> Zero, pressure |-> Zero]
    /\ gpBuffer = <<>>
    /\ gpTime = Zero
    /\ gpResult = Absent
    /\ gpPc = "idle"

InitOutline ==
    /\ IdleCanvas /\ IdleSvg /\ IdlePressure
    /\ \/ points \in ShortStrokes /\ options \in SettingsSet
       \/ points \in StraightStrokes /\ options \in StraightSettings
    /\ i = 0
    /\ prevPressure = Half
    /\ prevVector = Vec(Zero, Zero)
    /\ width = Zero
    /\ normal = Vec(Zero, Zero)
    /\ leftPts = <<>>
    /\ rightPts = <<>>
    /\ outline = <<>>
    /\ pc = "start"

NextOutline ==
    \/ OutlineReturnEmpty
    \/ OutlineSeed
    \/ OutlineLoop
    \/ OutlineReturn

SpecOutline == InitOutline /\ [][NextOutline]_vars

----------------------------------------------------------------------------
(* Claims about getStrokeOutlinePoints, checked under SpecOutline *)

\* C1: the outline returned is empty when points.length < 2 and has exactly
\* 2 * points.length points when points.length >= 2, for every settings value.
C1_OutlineLength ==
    pc = "done" =>
        Len(outline) = IF Len(points) < 2 THEN 0 ELSE 2 * Len(points)

\* A 2-point stroke has gone through the loop and returned 4 points.
C1_Witness == pc = "done" /\ Len(points) = 2 /\ i = 2 /\ Len(outline) = 4

\* The stroke of the scenario of C2: 10 evenly spaced points on a horizontal
\* line, every pressure 1.0, size 10, thinning 0.
HorizontalScenario ==
    /\ Len(points) = 10
    /\ \A k \in 1..10 : points[k].y = points[1].y /\ points[k].pressure = One
    /\ points[2].x # points[1].x
    /\ \A k \in 1..9 : RSub(points[k + 1].x, points[k].x) = RSub(points[2].x, points[1].x)
    /\ options.size = Num(10)
    /\ options.thinning = Zero

\* C2 as stated: in the scenario, for every input point (x, y) the left-list
\* point is (x, y - 5) and the right-list point is (x, y + 5).
C2_Original ==
    (pc = "done" /\ HorizontalScenario) =>
        \A k \in 1..10 :
            /\ outline[k] = Vec(points[k].x, RSub(points[k].y, Num(5)))
            /\ outline[21 - k] = Vec(points[k].x, RAdd(points[k].y, Num(5)))

\* C2 amended: in the scenario the outline is the straight rectangle of
\* half-width 5, and the side each list is on follows the direction of travel:
\* drawn towards +x the left-list point is (x, y + 5) and the right-list point
\* (x, y - 5); drawn towards -x the left-list point is (x, y - 5) and the
\* right-list point (x, y + 5).
C2_Rectangle ==
    (pc = "done" /\ HorizontalScenario) =>
        LET s == IF RLt(points[1].x, points[2].x) THEN Num(5) ELSE Num(-5)
        IN  \A k \in 1..10 :
                /\ outline[k] = Vec(points[k].x, RAdd(points[k].y, s))
                /\ outline[21 - k] = Vec(points[k].x, RSub(points[k].y, s))

\* The scenario drawn towards +x on the x-axis has been outlined.
C2_Witness ==
    /\ pc = "done"
    /\ HorizontalScenario
    /\ points[1].y = Zero
    /\ RLt(points[1].x, points[2].x)
    /\ Len(outline) = 20

\* The taper length the claim C4 states: min(5, floor(N / 3)).
ClaimedTaperLength(n) == IF n \div 3 < 5 THEN n \div 3 ELSE 5

\* C4: for every point count N >= 3 the taper factor is 0 at index 0 and at
\* index N-1, non-decreasing over the leading window 0..taperLength-1,
\* non-increasing over the trailing window N-taperLength..N-1, and 1 at every
\* index outside both windows.
C4_TaperProfile ==
    LET n  == Len(points)
        tl == ClaimedTaperLength(n)
    IN  n >= 3 =>
            /\ TaperFactor(0, n) = Zero
            /\ TaperFactor(n - 1, n) = Zero
            /\ \A a, b \in 0..(tl - 1) :
                   a <= b => RLe(TaperFactor(a, n), TaperFactor(b, n))
            /\ \A a, b \in (n - tl)..(n - 1) :
                   a <= b => RLe(TaperFactor(b, n), TaperFactor(a, n))
            /\ \A k \in tl..(n - 1 - tl) : TaperFactor(k, n) = One

\* A stroke long enough for the cap of 5 to bind (floor(N / 3) > 5) has been
\* tapered and outlined.
C4_Witness == pc = "done" /\ Len(points) >= 18 /\ i = Len(points)

\* The smoothed pressures of points 0..Len(points)-1 as a function of the
\* input alone, folded from the left; acc holds those of the points before k
\* (the test on p[2] has each one evaluated before the next is begun).
RECURSIVE RefPressures(_, _)
RefPressures(k, acc) ==
    IF k = Len(points) THEN acc
    ELSE LET p == SmoothPressure(IF k = 0 THEN SeedPressure(points) ELSE acc[k],
                                 points[k + 1], k, Len(points))
         IN  IF p[2] > 0 THEN RefPressures(k + 1, Append(acc, p)) ELSE acc
\* The direction of point k (from 0) and the one before it, from the input alone.
RECURSIVE RefVector(_)
RefVector(k) ==
    Direction(points, k, IF k = 0 THEN SeedVector(points) ELSE RefVector(k - 1))
RefPrevVector(k) == IF k = 0 THEN SeedVector(points) ELSE RefVector(k - 1)
\* The offset of point k (from 0): its normal scaled by half its width.
RefOffset(k, pressures) ==
    Offset(Normal(RefVector(k), RefPrevVector(k)),
           StrokeWidth(options.size, options.thinning, pressures[k + 1]))

\* C9: for n >= 2 points the outline is the left list in point order followed
\* by the right list reversed: outline[i] = points[i] - offset_i and
\* outline[2n-1-i] = points[i] + offset_i for every i in 0..n-1 (from 0).
C9_LeftThenReversedRight ==
    (pc = "done" /\ Len(points) >= 2) =>
        LET pressures == RefPressures(0, <<>>)
        IN  \A k \in 0..(Len(points) - 1) :
                /\ outline[k + 1] = sub(Pos(points[k + 1]), RefOffset(k, pressures))
                /\ outline[2 * Len(points) - k] = add(Pos(points[k + 1]), RefOffset(k, pressures))

\* A stroke of at least 3 points whose two sides differ has been outlined.
C9_Witness ==
    /\ pc = "done"
    /\ Len(points) >= 3
    /\ Len(outline) = 2 * Len(points)
    /\ outline[1] # outline[2 * Len(points)]
    /\ outline[2] # outline[2 * Len(points) - 1]

\* C10: the previous smoothed pressure is seeded with the first point's
\* pressure p0 whenever it is present, a present 0 included, and with 0.5 only
\* when it is absent; so the smoothed pressure at index 0 is
\* lerp(p0, taper(0, n) * p0, 0.5).
C10_SeedIsFirstPressure ==
    (pc = "loop" /\ i = 1) =>
        LET p0   == points[1].pressure
            seed == IF p0 = Absent THEN Half ELSE p0
        IN  prevPressure = lerp(seed, RMul(TaperFactor(0, Len(points)), seed), Half)

\* No two consecutive points of pts are at the same position.
ConsecutiveDistinct(pts) ==
    \A k \in 1..(Len(pts) - 1) : Pos(pts[k]) # Pos(pts[k + 1])

\* The square of the length of a vector.
SquaredLength(a) == RAdd(RMul(a.x, a.x), RMul(a.y, a.y))

\* C11: for a stroke whose consecutive points are all distinct, the normal of
\* every point has length 1, and its right point lies exactly the point's width
\* from its left point along that normal; a point where the stroke turns back
\* by 180 degrees is no exception.
C11_UnitNormals ==
    (pc = "loop" /\ i >= 1 /\ ConsecutiveDistinct(points)) =>
        /\ SquaredLength(normal) = One
        /\ sub(rightPts[i], leftPts[i]) = mul(normal, width)

----------------------------------------------------------------------------
(* utils/ink: getSvgPathFromStroke(strokePoints) *)

\* Outlines of up to MaxOutline points are serialized.
MaxOutline == 4

\* Number.prototype.toFixed(2): the sign, the integer digits and the two
\* decimals of the nearest hundredth, a tie going to the larger magnitude.
ToFixed2(a) ==
    LET m == RAbs(a)
        h == (200 * m[1] + m[2]) \div (2 * m[2])
    IN  <<IF a[1] < 0 THEN "-" ELSE "", h \div 100, h % 100>>

\* (the next point without wrapping around)
NextIndexNoWrap(idx, len) == IF idx + 1 < len THEN idx + 1 ELSE idx
\* (i + 1) % len
NextIndex(idx, len) == (idx + 1) % len

\* const mid = { x: (p1.x + p2.x) / 2, y: (p1.y + p2.y) / 2 }
Midpoint(p1, p2) ==
    Vec(RDiv(RAdd(p1.x, p2.x), Num(2)), RDiv(RAdd(p1.y, p2.y), Num(2)))

\* The pieces of the path string: "M x y", " Q x1 y1, x y" and " Z".
MoveTo(p) == <<"M", ToFixed2(p.x), ToFixed2(p.y)>>
CurveTo(p1, mid) ==
    <<"Q", ToFixed2(p1.x), ToFixed2(p1.y), ToFixed2(mid.x), ToFixed2(mid.y)>>
ClosePath == <<"Z">>

\* if (strokePoints.length === 0) return ""
SvgReturnEmpty ==
    /\ svgPc = "start"
    /\ Len(strokePoints) = 0
    /\ d' = <<>>
    /\ svgPc' = "done"
    /\ UNCHANGED <<strokePoints, svgI>>
    /\ UNCHANGED <<canvasVars, outlineVars, pressureVars>>

\* let d = `M ...`, and the loop starts at i = 1
SvgMoveTo ==
    /\ svgPc = "start"
    /\ Len(strokePoints) # 0
    /\ d' = <<MoveTo(strokePoints[1])>>
    /\ svgI' = 1
    /\ svgPc' = "loop"
    /\ UNCHANGED strokePoints
    /\ UNCHANGED <<canvasVars, outlineVars, pressureVars>>

\* one iteration of for (let i = 1; i < len; i++)
SvgCurve ==
    /\ svgPc = "loop"
    /\ svgI < Len(strokePoints)
    /\ LET p1 == strokePoints[svgI + 1]
           p2 == strokePoints[NextIndex(svgI, Len(strokePoints)) + 1]
       IN  d' = Append(d, CurveTo(p1, Midpoint(p1, p2)))
    /\ svgI' = svgI + 1
    /\ UNCHANGED <<strokePoints, svgPc>>
    /\ UNCHANGED <<canvasVars, outlineVars, pressureVars>>

\* d += " Z"; return d
SvgClose ==
    /\ svgPc = "loop"
    /\ ~(svgI < Len(strokePoints))
    /\ d' = Append(d, ClosePath)
    /\ svgPc' = "done"
    /\ UNCHANGED <<strokePoints, svgI>>
    /\ UNCHANGED <<canvasVars, outlineVars, pressureVars>>

\* Outline points to serialize: whole, with more than two decimals, negative, and ties.
SvgPoints ==
    { Vec(Zero, Zero), Vec(Rat(21, 2), Rat(1, 3)),
      Vec(Rat(-1, 200), Rat(1, 8)), Vec(Rat(49, 16), Rat(-7, 3)) }

InitSvg ==
    /\ IdleCanvas /\ IdleOutline /\ IdlePressure
    /\ strokePoints \in UNION {[1..n -> SvgPoints] : n \in 0..MaxOutline}
    /\ d = <<>>
    /\ svgI = 0
    /\ svgPc = "start"

NextSvg ==
    \/ SvgReturnEmpty
    \/ SvgMoveTo
    \/ SvgCurve
    \/ SvgClose

SpecSvg == InitSvg /\ [][NextSvg]_vars

(* Claims about getSvgPathFromStroke, checked under SpecSvg *)

\* C8: for an outline of length L >= 1 the path starts at outline[0], then has
\* for each i = 1..L-1 in order exactly one quadratic segment whose control
\* point is outline[i] and whose anchor is the midpoint of outline[i] and
\* outline[(i+1) mod L] (each coordinate as toFixed(2) writes it), L-1 segments
\* in all, followed by exactly one closing instruction; the empty outline
\* yields the empty path.
C8_PathShape ==
    svgPc = "done" =>
        LET L == Len(strokePoints)
        IN  IF L = 0 THEN d = <<>>
            ELSE /\ Len(d) = L + 1
                 /\ d[1] = <<"M", ToFixed2(strokePoints[1].x), ToFixed2(strokePoints[1].y)>>
                 /\ \A k \in 1..(L - 1) :
                        LET c == strokePoints[k + 1]
                            q == strokePoints[((k + 1) % L) + 1]
                        IN  d[k + 1] =
                              <<"Q", ToFixed2(c.x), ToFixed2(c.y),
                                ToFixed2(RDiv(RAdd(c.x, q.x), Num(2))),
                                ToFixed2(RDiv(RAdd(c.y, q.y), Num(2)))>>
                 /\ d[L + 1] = <<"Z">>
                 /\ Cardinality({k \in 1..Len(d) : d[k][1] = "Q"}) = L - 1
                 /\ Cardinality({k \in 1..Len(d) : d[k][1] = "Z"}) = 1

\* An outline of 3 distinct points is serialized: the last segment wraps
\* around to outline[0].
C8_Witness ==
    /\ svgPc = "done"
    /\ Len(strokePoints) = 3
    /\ strokePoints[1] # strokePoints[3]
    /\ strokePoints[1] # strokePoints[2]
    /\ Len(d) = 4

----------------------------------------------------------------------------
(* Canvas: getPoint(e, pointsBuffer), with t the value performance.now() returns *)

\* Pointer positions are 0..MaxPos half-pixels along the line of slope 4/3.
MaxPos == 5
\* Clock readings are 0..MaxTick half-milliseconds.
MaxTick == 4

\* canvasRef.current.getBoundingClientRect(): the canvas fills the window.
CanvasRect == [left |-> Zero, top |-> Zero]

\* const maxV = 2.5
MaxV == Rat(5, 2)
\* the floor of Math.max(0.1, ...)
MinPressure == Rat(1, 10)

\* (elapsed time raised to at least 1)
ElapsedAtLeastOne(dt) == RMax(dt, One)
\* dt || 1: only an elapsed time of exactly 0 is replaced
ElapsedOrOne(dt) == OrElse(dt, One)

\* The pressure simulated from the last point of the buffer, lines 42-56.
SimulatedPressure(x, y, t, last) ==
    LET dst         == Hypot(RSub(x, last.x), RSub(y, last.y))
        dt          == RSub(t, OrElse(last.time, Zero))
        velocity    == RDiv(dst, ElapsedOrOne(dt))
        normalizedV == RDiv(RMin(velocity, MaxV), MaxV)
    IN  RMax(MinPressure, RMin(One, RSub(One, normalizedV)))

GetPoint(e, pointsBuffer, t) ==
    LET x == RSub(e.clientX, CanvasRect.left)
        y == RSub(e.clientY, CanvasRect.top)
        pressure ==
            IF e.pressure = Zero \/ e.pressure = Half
            THEN IF Len(pointsBuffer) > 0
                 THEN SimulatedPressure(x, y, t, pointsBuffer[Len(pointsBuffer)])
                 ELSE Half
            ELSE e.pressure
    IN  Pt(x, y, pressure, t)

\* A pointer event at position k with the device's pressure.
PointerEvent(k, pressure) ==
    [clientX |-> Rat(3 * k, 10), clientY |-> Rat(4 * k, 10), pressure |-> pressure]
DevicePressures == {Zero, Half, Rat(7, 10), One}
Time(k) == Rat(k, 2)

\* getPoint is called
GetPointCall ==
    /\ gpPc = "start"
    /\ gpResult' = GetPoint(gpEvent, gpBuffer, gpTime)
    /\ gpPc' = "done"
    /\ UNCHANGED <<gpEvent, gpBuffer, gpTime>>
    /\ UNCHANGED <<canvasVars, outlineVars, svgVars>>

\* The calls of getPoint: any event, at any clock reading, with an empty buffer
\* or a point taken at an earlier or equal reading (performance.now() never
\* goes back).
InitPressure ==
    /\ IdleCanvas /\ IdleOutline /\ IdleSvg
    /\ gpEvent \in {PointerEvent(k, p) : k \in 0..MaxPos, p \in DevicePressures}
    /\ gpTime \in {Time(j) : j \in 0..MaxTick}
    /\ gpBuffer \in {<<>>} \cup
           { <<Pt(Rat(3 * k, 10), Rat(4 * k, 10), p, Time(j))>> :
               k \in 0..MaxPos, p \in {MinPressure, One}, j \in 0..MaxTick }
    /\ Len(gpBuffer) > 0 => RLe(gpBuffer[1].time, gpTime)
    /\ gpResult = Absent
    /\ gpPc = "start"

NextPressure == GetPointCall

SpecPressure == InitPressure /\ [][NextPressure]_vars

(* Claims about getPoint, checked under SpecPressure *)

\* The case of C3: a sentinel raw pressure and a prior point.
SentinelWithPrior ==
    /\ gpPc = "done"
    /\ gpEvent.pressure \in {Zero, Half}
    /\ Len(gpBuffer) > 0

\* t - priorTime
Elapsed == RSub(gpTime, gpBuffer[1].time)
\* the distance d from the last prior point to the new one
Travelled ==
    Hypot(RSub(gpResult.x, gpBuffer[1].x), RSub(gpResult.y, gpBuffer[1].y))
\* clamp(1 - clamp(d / dt, 0, 2.5) / 2.5, 0.1, 1.0)
ClampedPressure(dst, dt) ==
    LET v  == RDiv(dst, dt)
        cv == IF RLt(v, Zero) THEN Zero ELSE IF RLt(Rat(5, 2), v) THEN Rat(5, 2) ELSE v
        pr == RSub(One, RDiv(cv, Rat(5, 2)))
    IN  IF RLt(pr, Rat(1, 10)) THEN Rat(1, 10) ELSE IF RLt(One, pr) THEN One ELSE pr

\* C3 as stated: with a sentinel raw pressure and a prior point the pressure is
\* clamp(1 - clamp(d / dt, 0, 2.5) / 2.5, 0.1, 1.0) with dt = max(t - priorTime, 1),
\* for every elapsed time, 0, between 0 and 1, and negative included.
C3_Original ==
    SentinelWithPrior =>
        gpResult.pressure =
            ClampedPressure(Travelled, IF RLt(Elapsed, One) THEN One ELSE Elapsed)

\* C3 amended: the same formula with dt = t - priorTime, replaced by 1 only when
\* it is exactly 0: an elapsed time strictly between 0 and 1 divides the
\* distance as it is.  (Elapsed times are those of a clock that never goes back.)
C3_PressureFromVelocity ==
    SentinelWithPrior =>
        gpResult.pressure =
            ClampedPressure(Travelled, IF Elapsed = Zero THEN One ELSE Elapsed)

\* A sentinel pressure half a millisecond and one pixel after the prior point:
\* velocity 2, pressure 0.2 (and 0.6 by the formula of C3 as stated).
C3_Witness ==
    /\ SentinelWithPrior
    /\ Elapsed = Half
    /\ Travelled = One
    /\ gpResult.pressure = Rat(1, 5)

----------------------------------------------------------------------------
(* Canvas: the pointer handlers; App: history, undo, redo, clear *)

\* performance.now() reads 0..MaxClock half-milliseconds.
MaxClock == 1
\* A stroke in progress holds up to MaxStroke points.
MaxStroke == 2
\* history and redoStack hold up to MaxHistory strokes together.
MaxHistory == 2

\* The pressures reported when the pointer goes down: the mouse's neutral 0.5
\* and a pen's reading.
CanvasPressures == {Half, Rat(7, 10)}
\* One sample: the pointer event (at 0, 0.5 or 1 pixel along the line) and how
\* far the clock has moved on when getPoint reads it.
SamplesOf(pressures) ==
    { [e |-> PointerEvent(k, p), adv |-> a] :
        k \in {0, 1, 2}, p \in pressures, a \in {0, 1} }
\* The event of a pointerdown.
DownSamples == SamplesOf(CanvasPressures)
\* The samples of a pointermove report the neutral pressure, so that each
\* point's pressure is the one simulated from the velocity.
Samples == SamplesOf({Half})
\* The samples of one pointermove: the event itself, or two coalesced samples
\* read in the same turn of the clock.
Batches ==
    { <<s1>> : s1 \in Samples } \cup
    { b \in [1..2 -> Samples] : b[2].adv = 0 }

\* (a start keeping the pressure getPoint gave)
FirstPointAsMeasured(pt) == pt
\* pt.pressure = 0.1
FirstPoint(pt) == [pt EXCEPT !.pressure = Rat(1, 10)]

\* (no sample is skipped)
TooCloseNever(pt, next) == FALSE
\* next.length > 0 and Math.hypot(pt.x - last.x, pt.y - last.y) < 1
TooClose(pt, next) ==
    /\ Len(next) > 0
    /\ RLt(Hypot(RSub(pt.x, next[Len(next)].x), RSub(pt.y, next[Len(next)].y)), One)

\* The loop of the updater of handlePointerMove over the event's samples: the
\* points after it and the clock's last reading.
RECURSIVE AppendSamples(_, _, _)
AppendSamples(next, samples, clock) ==
    IF samples = <<>> THEN [points |-> next, clock |-> clock]
    ELSE LET t  == clock + Head(samples).adv
             pt == GetPoint(Head(samples).e, next, Time(t))
         IN  AppendSamples(IF TooClose(pt, next) THEN next ELSE Append(next, pt),
                           Tail(samples), t)

\* (a stroke of one point is committed too)
WorthKeepingAny(pts) == Len(pts) > 0
\* currentPoints.length > 1
WorthKeeping(pts) == Len(pts) > 1

\* (a handler that runs whether or not a stroke is being drawn)
IgnoredNever(drawing) == FALSE
\* if (!isDrawing.current) return
Ignored(drawing) == ~drawing

\* The stroke handlePointerUp commits.
NewStroke ==
    [points |-> currentPoints,
     color |-> IF tool = "ERASER" THEN "eraser" ELSE INITIAL_SETTINGS.color,
     settings |-> INITIAL_SETTINGS]

\* handlePointerDown
PointerDown ==
    /\ Len(history) + Len(redoStack) < MaxHistory
    /\ \E s \in DownSamples :
        /\ now + s.adv <= MaxClock
        /\ now' = now + s.adv
        /\ currentPoints' = <<FirstPoint(GetPoint(s.e, <<>>, Time(now + s.adv)))>>
    /\ isDrawing' = TRUE
    /\ UNCHANGED <<history, redoStack, tool>>
    /\ UNCHANGED <<outlineVars, svgVars, pressureVars>>

\* handlePointerMove
PointerMove ==
    /\ \E samples \in Batches :
        IF Ignored(isDrawing)
        THEN UNCHANGED <<currentPoints, now>>
        ELSE LET r == AppendSamples(currentPoints, samples, now)
             IN  /\ r.clock <= MaxClock
                 /\ Len(r.points) <= MaxStroke
                 /\ currentPoints' = r.points
                 /\ now' = r.clock
    /\ UNCHANGED <<isDrawing, history, redoStack, tool>>
    /\ UNCHANGED <<outlineVars, svgVars, pressureVars>>

\* handlePointerUp, which onPointerUp and onPointerLeave both call
HandlePointerUp ==
    /\ IF Ignored(isDrawing)
       THEN UNCHANGED <<currentPoints, isDrawing, history, redoStack>>
       ELSE /\ isDrawing' = FALSE
            /\ IF WorthKeeping(currentPoints)
               THEN /\ history' = Append(history, NewStroke)
                    /\ redoStack' = <<>>
               ELSE UNCHANGED <<history, redoStack>>
            /\ currentPoints' = <<>>
    /\ UNCHANGED <<tool, now>>
    /\ UNCHANGED <<outlineVars, svgVars, pressureVars>>

PointerUp == HandlePointerUp
PointerLeave == HandlePointerUp

\* handleUndo: history and redoStack after it
AfterUndo(h, r) ==
    IF Len(h) = 0
    THEN [history |-> h, redoStack |-> r]
    ELSE [history |-> SubSeq(h, 1, Len(h) - 1), redoStack |-> Append(r, h[Len(h)])]

\* (a redo that leaves the stroke on redoStack)
AfterRedoKeeping(h, r) ==
    IF Len(r) = 0
    THEN [history |-> h, redoStack |-> r]
    ELSE [history |-> Append(h, r[Len(r)]), redoStack |-> r]
\* handleRedo: history and redoStack after it
AfterRedo(h, r) ==
    IF Len(r) = 0
    THEN [history |-> h, redoStack |-> r]
    ELSE [history |-> Append(h, r[Len(r)]), redoStack |-> SubSeq(r, 1, Len(r) - 1)]

\* handleUndo
Undo ==
    /\ history' = AfterUndo(history, redoStack).history
    /\ redoStack' = AfterUndo(history, redoStack).redoStack
    /\ UNCHANGED <<currentPoints, isDrawing, tool, now>>
    /\ UNCHANGED <<outlineVars, svgVars, pressureVars>>

\* handleRedo
Redo ==
    /\ history' = AfterRedo(history, redoStack).history
    /\ redoStack' = AfterRedo(history, redoStack).redoStack
    /\ UNCHANGED <<currentPoints, isDrawing, tool, now>>
    /\ UNCHANGED <<outlineVars, svgVars, pressureVars>>

\* handleClear
Clear ==
    /\ IF Len(history) > 0
       THEN history' = <<>> /\ redoStack' = <<>>
       ELSE UNCHANGED <<history, redoStack>>
    /\ UNCHANGED <<currentPoints, isDrawing, tool, now>>
    /\ UNCHANGED <<outlineVars, svgVars, pressureVars>>

Init == IdleCanvas /\ IdleOutline /\ IdleSvg /\ IdlePressure

Next ==
    \/ PointerDown
    \/ PointerMove
    \/ PointerUp
    \/ PointerLeave
    \/ Undo
    \/ Redo
    \/ Clear

Spec == Init /\ [][Next]_vars

(* Claims about the pointer handlers and the history, checked under Spec *)

\* The strokes the App holds: those of history and those undone into redoStack.
Committed == {history[k] : k \in 1..Len(history)} \cup
             {redoStack[k] : k \in 1..Len(redoStack)}

\* A release: the pointer was drawing and no longer is.
Release == isDrawing /\ ~isDrawing'

\* C5: a release appends the stroke in progress to history only if it has at
\* least 2 points, a release of a stroke of 0 or 1 points leaves history as it
\* was, and so every stroke of history (and every stroke undone) has at least
\* 2 points.
C5_OnlyStrokesOfTwoPoints ==
    /\ [](\A stroke \in Committed : Len(stroke.points) >= 2)
    /\ [][Release =>
            IF Len(currentPoints) >= 2
            THEN /\ Len(history') = Len(history) + 1
                 /\ SubSeq(history', 1, Len(history)) = history
                 /\ history'[Len(history')].points = currentPoints
            ELSE history' = history]_vars

\* A stroke of two points has been released into history, and a later stroke is
\* in progress with the single point of its pointerdown.
C5_Witness ==
    /\ Len(history) = 1
    /\ Len(history[1].points) = 2
    /\ isDrawing
    /\ Len(currentPoints) = 1

\* C6: the first point of the stroke in progress, and of every stroke committed,
\* has pressure exactly 0.1.
C6_LightStart ==
    /\ Len(currentPoints) > 0 => currentPoints[1].pressure = Rat(1, 10)
    /\ \A stroke \in Committed : stroke.points[1].pressure = Rat(1, 10)

\* A committed stroke that starts at 0.1 and goes on at the pressure simulated
\* for one pixel in half a millisecond, while the next stroke has just started.
C6_Witness ==
    /\ Len(history) = 1
    /\ history[1].points[1].pressure = Rat(1, 10)
    /\ history[1].points[2].pressure = Rat(1, 5)
    /\ isDrawing
    /\ Len(currentPoints) = 1
    /\ currentPoints[1].pressure = Rat(1, 10)

\* Every two consecutive points of pts are at distance 1 or more.
Spaced(pts) ==
    \A k \in 1..(Len(pts) - 1) :
        RLe(One, Hypot(RSub(pts[k + 1].x, pts[k].x), RSub(pts[k + 1].y, pts[k].y)))

\* C7: any two consecutive points of the stroke in progress, and of every stroke
\* committed, are at distance 1 or more.
C7_SamplesSpaced ==
    /\ Spaced(currentPoints)
    /\ \A stroke \in Committed : Spaced(stroke.points)

\* A stroke in progress whose second point is exactly 1 pixel from the first:
\* the samples half a pixel away were skipped.
C7_Witness ==
    /\ isDrawing
    /\ Len(currentPoints) = 2
    /\ Hypot(RSub(currentPoints[2].x, currentPoints[1].x),
             RSub(currentPoints[2].y, currentPoints[1].y)) = One

\* C12: a stroke is finalized at most once.  A pointerup or pointerleave that
\* arrives while a stroke is being drawn ends the drawing, empties the stroke
\* in progress, and leaves history as it was or with that one stroke appended;
\* once the drawing has ended the stroke in progress stays empty, and every
\* pointerup, pointerleave or pointermove that arrives before the next
\* pointerdown changes neither history nor the stroke in progress.
C12_FinalizedOnce ==
    /\ [](~isDrawing => currentPoints = <<>>)
    /\ [][(isDrawing /\ (PointerUp \/ PointerLeave)) =>
            /\ ~isDrawing'
            /\ currentPoints' = <<>>
            /\ history' = history \/ history' = Append(history, NewStroke)]_vars
    /\ [][(~isDrawing /\ (PointerUp \/ PointerLeave \/ PointerMove)) =>
            /\ ~isDrawing'
            /\ history' = history
            /\ currentPoints' = currentPoints]_vars

\* A stroke has been committed and no stroke is being drawn: the state in which
\* further pointerup, pointerleave and pointermove events arrive, and in which
\* they leave the program.
C12_Witness ==
    /\ ~isDrawing
    /\ currentPoints = <<>>
    /\ Len(history) = 1
    /\ redoStack = <<>>

\* A commit: a release that appends the stroke in progress to history.
Commit == Release /\ Len(history') = Len(history) + 1

\* C13: in every state reached by commits, undos, redos and clears, an undo on
\* a history that is not empty followed at once by a redo gives back the
\* history and the redoStack there were before the undo; and every commit of a
\* new stroke leaves redoStack empty.
C13_UndoThenRedo ==
    /\ [](Len(history) > 0 =>
            LET undone == AfterUndo(history, redoStack)
            IN  AfterRedo(undone.history, undone.redoStack) =
                    [history |-> history, redoStack |-> redoStack])
    /\ [][Commit => redoStack' = <<>>]_vars

\* A history of one stroke beside a different stroke undone earlier: the undo
\* then has a stroke to move and the redo a longer stack to take it back from.
C13_Witness ==
    /\ Len(history) = 1
    /\ Len(redoStack) = 1
    /\ history[1] # redoStack[1]
    /\ ~isDrawing

====
